---- MODULE Spec2Model ----
(***************************************************************************)
(* FindMiiEditor: the level-table converter of src/main.rs.                *)
(*                                                                         *)
(*   SpecCodec     Level::from_bytes / Level::to_bytes on one 64-byte      *)
(*                 record                                                  *)
(*   SpecFromFile  Level::from_file, the read loop of the table decoder    *)
(*   SpecAssemble  Args::Assemble: parse, validation scan, create, write   *)
(*   SpecRandomize Args::Randomize: the per-level rule chain, run twice    *)
(*                 from one seed, then create and write                    *)
(*                                                                         *)
(* A u32 (and the bit pattern of an f32) is kept as the pair               *)
(* <<high half, low half>> of 16-bit numbers, so that all 32 bits stay     *)
(* inside TLC's integers.  In the randomizer an f32 is the integer         *)
(* 100000 * value, which is exact for every literal of the rule chain.     *)
(***************************************************************************)
EXTENDS Integers, Sequences, FiniteSets, TLC

VARIABLES
    \* SpecCodec
    cIn, cOut, cLevel, cPc,
    \* SpecFromFile
    stream, fPos, fBuf, fLevels, fResult, fPc,
    \* SpecAssemble
    asm_input, asm_levels, asm_warnings, asm_output, asm_lvl_bytes,
    asm_written, asm_pc,
    \* SpecRandomize
    seed, rng, levels, favorite_pending, last_idx, i, rule, fixed,
    rand_output, rand_written, rand_pc

codecVars == <<cIn, cOut, cLevel, cPc>>
fileVars  == <<stream, fPos, fBuf, fLevels, fResult, fPc>>
asmVars   == <<asm_input, asm_levels, asm_warnings, asm_output,
               asm_lvl_bytes, asm_written, asm_pc>>
randVars  == <<seed, rng, levels, favorite_pending, last_idx, i, rule, fixed,
               rand_output, rand_written, rand_pc>>
vars == <<codecVars, fileVars, asmVars, randVars>>

--------------------------------------------------------------------------
(* struct Level and the record codec                                       *)

RecordSize == 64

Offsets == 0 .. (RecordSize - 1)

Byte == 0 .. 255

\* the sixteen fields of struct Level, in declaration order
FieldNames ==
    << "num_miis", "behavior", "level_type", "map",
       "zoom_out_max", "zoom_in_max", "unk7", "horiz_dist", "vert_dist",
       "darkness", "head_size", "unk12", "unk13", "unk14", "unk15", "unk16" >>

\* a small u32 as its two 16-bit halves
U32(n) == << n \div 65536, n % 65536 >>

\* w > c for a small constant c
WordGt(w, c) == w[1] > 0 \/ w[2] > c

\* BigEndian::read_u32(&input[off..])
read_u32(input, off) ==
    << input[off] * 256 + input[off + 1], input[off + 2] * 256 + input[off + 3] >>

\* BigEndian::read_f32: f32::from_bits of the big-endian word
read_f32(input, off) == read_u32(input, off)

\* BigEndian::write_u32(&mut output[off..], w)
write_u32(output, off, w) ==
    [output EXCEPT ![off]     = w[1] \div 256,
                   ![off + 1] = w[1] % 256,
                   ![off + 2] = w[2] \div 256,
                   ![off + 3] = w[2] % 256]

\* BigEndian::write_f32: the word of f32::to_bits, big-endian
write_f32(output, off, w) == write_u32(output, off, w)

from_bytes(input) ==
    [ num_miis     |-> read_u32(input, 0),
      behavior     |-> read_u32(input, 4),
      level_type   |-> read_u32(input, 8),
      map          |-> read_u32(input, 12),
      zoom_out_max |-> read_f32(input, 16),
      zoom_in_max  |-> read_f32(input, 20),
      unk7         |-> read_f32(input, 24),
      horiz_dist   |-> read_f32(input, 28),
      vert_dist    |-> read_f32(input, 32),
      darkness     |-> read_f32(input, 36),
      head_size    |-> read_f32(input, 40),
      unk12        |-> read_f32(input, 44),
      unk13        |-> read_f32(input, 48),
      unk14        |-> read_f32(input, 52),
      unk15        |-> read_f32(input, 56),
      unk16        |-> read_f32(input, 60) ]

\* to_bytes with a fault: the two zoom fields written to each other's slot
to_bytes_swapped(self, output) ==
    LET o1  == write_u32(output, 0, self.num_miis)
        o2  == write_u32(o1, 4, self.behavior)
        o3  == write_u32(o2, 8, self.level_type)
        o4  == write_u32(o3, 12, self.map)
        o5  == write_f32(o4, 16, self.zoom_in_max)
        o6  == write_f32(o5, 20, self.zoom_out_max)
        o7  == write_f32(o6, 24, self.unk7)
        o8  == write_f32(o7, 28, self.horiz_dist)
        o9  == write_f32(o8, 32, self.vert_dist)
        o10 == write_f32(o9, 36, self.darkness)
        o11 == write_f32(o10, 40, self.head_size)
        o12 == write_f32(o11, 44, self.unk12)
        o13 == write_f32(o12, 48, self.unk13)
        o14 == write_f32(o13, 52, self.unk14)
        o15 == write_f32(o14, 56, self.unk15)
    IN  write_f32(o15, 60, self.unk16)

to_bytes(self, output) ==
    LET o1  == write_u32(output, 0, self.num_miis)
        o2  == write_u32(o1, 4, self.behavior)
        o3  == write_u32(o2, 8, self.level_type)
        o4  == write_u32(o3, 12, self.map)
        o5  == write_f32(o4, 16, self.zoom_out_max)
        o6  == write_f32(o5, 20, self.zoom_in_max)
        o7  == write_f32(o6, 24, self.unk7)
        o8  == write_f32(o7, 28, self.horiz_dist)
        o9  == write_f32(o8, 32, self.vert_dist)
        o10 == write_f32(o9, 36, self.darkness)
        o11 == write_f32(o10, 40, self.head_size)
        o12 == write_f32(o11, 44, self.unk12)
        o13 == write_f32(o12, 48, self.unk13)
        o14 == write_f32(o13, 52, self.unk14)
        o15 == write_f32(o14, 56, self.unk15)
    IN  write_f32(o15, 60, self.unk16)

\* Level::default(): every field zero
DefaultWords == [ f \in { FieldNames[k] : k \in 1 .. Len(FieldNames) } |-> U32(0) ]

\* let mut lvl_bytes = [0u8;64]
ZeroBuf == [ o \in Offsets |-> 0 ]

--------------------------------------------------------------------------
(* SpecCodec: one record decoded and encoded again into a used buffer      *)

\* 4-byte patterns: zero, all ones, a NaN with a payload, -0.0, 1.0, mixed
WordPatterns ==
    { <<0, 0, 0, 0>>, <<255, 255, 255, 255>>, <<127, 192, 0, 1>>,
      <<128, 0, 0, 0>>, <<63, 128, 0, 0>>, <<1, 2, 3, 4>> }

BaseBufs ==
    { ZeroBuf, [ o \in Offsets |-> o + 1 ], [ o \in Offsets |-> 255 - o ] }

\* a base buffer with the word at one field's offset replaced by a pattern
CodecInputs ==
    { [ o \in Offsets |->
          IF o \div 4 = k THEN p[(o % 4) + 1] ELSE b[o] ] :
        b \in BaseBufs, k \in 0 .. 15, p \in WordPatterns }

\* what an output buffer may hold from an earlier record
UsedBufs == { ZeroBuf, [ o \in Offsets |-> 170 ], [ o \in Offsets |-> 63 - o ] }

InitCodec ==
    /\ cIn \in CodecInputs
    /\ cOut \in UsedBufs
    /\ cLevel = DefaultWords
    /\ cPc = "decode"

IdleCodec ==
    /\ cIn = << >>
    /\ cOut = << >>
    /\ cLevel = << >>
    /\ cPc = "idle"

Decode ==
    /\ cPc = "decode"
    /\ cLevel' = from_bytes(cIn)
    /\ cPc' = "encode"
    /\ UNCHANGED <<cIn, cOut>>

Encode ==
    /\ cPc = "encode"
    /\ cOut' = to_bytes(cLevel, cOut)
    /\ cPc' = "done"
    /\ UNCHANGED <<cIn, cLevel>>

--------------------------------------------------------------------------
(* SpecFromFile: Level::from_file                                          *)

MaxStreamLen == 130

\* the bytes of the input file
StreamOf(len, k) == [ p \in 1 .. len |-> (p * k) % 256 ]

Remaining == Len(stream) - fPos

\* the chunk read_exact fills lvl_bytes with
Chunk(s, pos) == [ o \in Offsets |-> s[pos + o + 1] ]

InitFromFile ==
    /\ stream \in { StreamOf(len, k) : len \in 0 .. MaxStreamLen, k \in {1, 7} }
    /\ fPos = 0
    /\ fBuf = ZeroBuf
    /\ fLevels = << >>
    /\ fResult = "none"
    /\ fPc = "read"

IdleFromFile ==
    /\ stream = << >>
    /\ fPos = 0
    /\ fBuf = << >>
    /\ fLevels = << >>
    /\ fResult = "none"
    /\ fPc = "idle"

\* read_exact(&mut lvl_bytes).is_ok(): a whole record was there
ReadRecord ==
    /\ fPc = "read"
    /\ Remaining >= RecordSize
    /\ fBuf' = Chunk(stream, fPos)
    /\ fLevels' = Append(fLevels, from_bytes(fBuf'))
    /\ fPos' = fPos + RecordSize
    /\ UNCHANGED <<stream, fResult, fPc>>

\* read_exact fails at the end of the file (UnexpectedEof): the loop ends,
\* the bytes of a partial record are consumed, and the vector is returned
ReadEof ==
    /\ fPc = "read"
    /\ Remaining < RecordSize
    /\ fBuf' = [ o \in Offsets |->
                   IF o < Remaining THEN stream[fPos + o + 1] ELSE fBuf[o] ]
    /\ fPos' = Len(stream)
    /\ fResult' = "ok"
    /\ fPc' = "returned"
    /\ UNCHANGED <<stream, fLevels>>

--------------------------------------------------------------------------
(* The validation scan of Args::Assemble                                   *)

Warn(kind, idx) == [ kind |-> kind, idx |-> idx ]

PairingKinds ==
    { "DuplicatePickFavorite", "UnmatchedFindFavorite", "UnresolvedFavoritePairing" }

\* let max_miis = match level.map { 4 => 40, _ => 99 }
ValidationMaxMiis(level) == IF level.map = U32(4) THEN 40 ELSE 99

\* MatchLevelType with a fault: a second 'pick your favorite' warns and
\* also clears the accumulator
MatchLevelType_DuplicateClears(level, idx, st) ==
    LET t == level.level_type
    IN  CASE t = U32(6) /\ ~st.pending ->
               [ st EXCEPT !.pending = TRUE ]
          [] t = U32(6) /\ st.pending ->
               [ st EXCEPT !.pending = FALSE,
                           !.warnings = Append(@, Warn("DuplicatePickFavorite", idx)) ]
          [] t = U32(7) /\ ~st.pending ->
               [ st EXCEPT !.warnings = Append(@, Warn("UnmatchedFindFavorite", idx)) ]
          [] t = U32(7) /\ st.pending ->
               [ st EXCEPT !.pending = FALSE ]
          [] t \in { U32(9), U32(10), U32(11) }
               /\ level.behavior # U32(1) /\ level.behavior # U32(3) ->
               [ st EXCEPT !.warnings = Append(@, Warn("IncompatibleBehavior", idx)) ]
          [] t \in { U32(17), U32(18), U32(19) } /\ level.behavior # U32(0) ->
               [ st EXCEPT !.warnings = Append(@, Warn("IncompatibleBehavior", idx)) ]
          [] OTHER -> st

\* match level.level_type { ... }: the first arm that matches
MatchLevelType(level, idx, st) ==
    LET t == level.level_type
    IN  CASE t = U32(6) /\ ~st.pending ->
               [ st EXCEPT !.pending = TRUE ]
          [] t = U32(6) /\ st.pending ->
               [ st EXCEPT !.warnings = Append(@, Warn("DuplicatePickFavorite", idx)) ]
          [] t = U32(7) /\ ~st.pending ->
               [ st EXCEPT !.warnings = Append(@, Warn("UnmatchedFindFavorite", idx)) ]
          [] t = U32(7) /\ st.pending ->
               [ st EXCEPT !.pending = FALSE ]
          [] t \in { U32(9), U32(10), U32(11) }
               /\ level.behavior # U32(1) /\ level.behavior # U32(3) ->
               [ st EXCEPT !.warnings = Append(@, Warn("IncompatibleBehavior", idx)) ]
          [] t \in { U32(17), U32(18), U32(19) } /\ level.behavior # U32(0) ->
               [ st EXCEPT !.warnings = Append(@, Warn("IncompatibleBehavior", idx)) ]
          [] OTHER -> st

\* one iteration of the scan: the match, then the cap check
ValidateLevel(level, idx, st) ==
    LET m == MatchLevelType(level, idx, st)
    IN  IF WordGt(level.num_miis, ValidationMaxMiis(level))
        THEN [ m EXCEPT !.warnings = Append(@, Warn("MiiCapExceeded", idx)) ]
        ELSE m

RECURSIVE ValidationScan(_, _, _)
\* for (idx, level) in levels.iter().enumerate(), from the k-th level on
ValidationScan(table, k, st) ==
    IF k > Len(table)
    THEN st
    ELSE ValidationScan(table, k + 1, ValidateLevel(table[k], k - 1, st))

\* ValidationPass with a fault: the check after the loop is missing
ValidationPass_NoEndCheck(table) ==
    ValidationScan(table, 1, [ pending |-> FALSE, warnings |-> << >> ]).warnings

\* everything the scan prints, in order, the end-of-table warning last
ValidationPass(table) ==
    LET st == ValidationScan(table, 1, [ pending |-> FALSE, warnings |-> << >> ])
    IN  IF st.pending
        THEN Append(st.warnings, Warn("UnresolvedFavoritePairing", Len(table)))
        ELSE st.warnings

--------------------------------------------------------------------------
(* SpecAssemble: Args::Assemble                                            *)

MaxAsmLevels == 3

\* a level of the input text: the four integers, and float bit patterns
AsmLevel(t, b, m, n) ==
    [ DefaultWords EXCEPT
        !.level_type = U32(t), !.behavior = U32(b), !.map = U32(m),
        !.num_miis = U32(n),
        !.zoom_out_max = << 49992, 0 >>,  \* -200.0
        !.darkness = << 17096, 1 >>,
        !.unk16 = << 32704, 0 >> ]        \* NaN

AsmLevelSet ==
    { AsmLevel(1, 0, 0, 99), AsmLevel(1, 2, 0, 100),
      AsmLevel(1, 0, 4, 40), AsmLevel(1, 0, 4, 41),
      AsmLevel(6, 0, 0, 99), AsmLevel(7, 0, 0, 99),
      AsmLevel(9, 1, 0, 99), AsmLevel(10, 3, 0, 99), AsmLevel(11, 0, 0, 99),
      AsmLevel(17, 0, 0, 99), AsmLevel(19, 1, 0, 99) }

AsmTables ==
    UNION { [ 1 .. n -> AsmLevelSet ] : n \in 0 .. MaxAsmLevels }

\* the output path before File::create
NoFile == [ created |-> FALSE, bytes |-> << >> ]

InitAssemble ==
    /\ asm_input \in [ wellformed : { TRUE }, levels : AsmTables ]
                     \cup { [ wellformed |-> FALSE, levels |-> << >> ] }
    /\ asm_levels = << >>
    /\ asm_warnings = << >>
    /\ asm_output = NoFile
    /\ asm_lvl_bytes = ZeroBuf
    /\ asm_written = 0
    /\ asm_pc = "open"

IdleAssemble ==
    /\ asm_input = [ wellformed |-> FALSE, levels |-> << >> ]
    /\ asm_levels = << >>
    /\ asm_warnings = << >>
    /\ asm_output = NoFile
    /\ asm_lvl_bytes = << >>
    /\ asm_written = 0
    /\ asm_pc = "idle"

\* File::open(&input).unwrap()
AsmOpen ==
    /\ asm_pc = "open"
    /\ asm_pc' = "parse"
    /\ UNCHANGED <<asm_input, asm_levels, asm_warnings, asm_output,
                   asm_lvl_bytes, asm_written>>

AsmOpenFails ==
    /\ asm_pc = "open"
    /\ asm_pc' = "failed"
    /\ UNCHANGED <<asm_input, asm_levels, asm_warnings, asm_output,
                   asm_lvl_bytes, asm_written>>

\* serde_json::from_reader(input_file).unwrap()
AsmParse ==
    /\ asm_pc = "parse"
    /\ asm_input.wellformed
    /\ asm_levels' = asm_input.levels
    /\ asm_pc' = "validate"
    /\ UNCHANGED <<asm_input, asm_warnings, asm_output, asm_lvl_bytes, asm_written>>

AsmParseFails ==
    /\ asm_pc = "parse"
    /\ ~asm_input.wellformed
    /\ asm_pc' = "failed"
    /\ UNCHANGED <<asm_input, asm_levels, asm_warnings, asm_output,
                   asm_lvl_bytes, asm_written>>

\* the scan over levels.iter() and the end-of-table check; it only prints
AsmValidate ==
    /\ asm_pc = "validate"
    /\ asm_warnings' = ValidationPass(asm_levels)
    /\ asm_pc' = "create"
    /\ UNCHANGED <<asm_input, asm_levels, asm_output, asm_lvl_bytes, asm_written>>

\* File::create(output).unwrap(): the file exists and is empty
AsmCreate ==
    /\ asm_pc = "create"
    /\ asm_output' = [ created |-> TRUE, bytes |-> << >> ]
    /\ asm_pc' = "write"
    /\ UNCHANGED <<asm_input, asm_levels, asm_warnings, asm_lvl_bytes, asm_written>>

AsmCreateFails ==
    /\ asm_pc = "create"
    /\ asm_pc' = "failed"
    /\ UNCHANGED <<asm_input, asm_levels, asm_warnings, asm_output,
                   asm_lvl_bytes, asm_written>>

\* the 64 bytes of a buffer, in order
BufBytes(buf) == [ p \in 1 .. RecordSize |-> buf[p - 1] ]

\* RecordBytes with a fault: the buffer is written without encoding the
\* level into it first
RecordBytes_Stale(level, lvl_bytes) == lvl_bytes

\* level.to_bytes(&mut lvl_bytes): what lvl_bytes holds when it is written
RecordBytes(level, lvl_bytes) == to_bytes(level, lvl_bytes)

\* one iteration of Level::to_file: to_bytes, then write_all(..).unwrap()
AsmWriteRecord ==
    /\ asm_pc = "write"
    /\ asm_written < Len(asm_levels)
    /\ asm_lvl_bytes' = RecordBytes(asm_levels[asm_written + 1], asm_lvl_bytes)
    /\ asm_output' = [ asm_output EXCEPT !.bytes = @ \o BufBytes(asm_lvl_bytes') ]
    /\ asm_written' = asm_written + 1
    /\ UNCHANGED <<asm_input, asm_levels, asm_warnings, asm_pc>>

\* write_all fails and unwrap panics; what was written before stays
AsmWriteFails ==
    /\ asm_pc = "write"
    /\ asm_written < Len(asm_levels)
    /\ asm_lvl_bytes' = RecordBytes(asm_levels[asm_written + 1], asm_lvl_bytes)
    /\ asm_pc' = "failed"
    /\ UNCHANGED <<asm_input, asm_levels, asm_warnings, asm_output, asm_written>>

\* the loop of to_file is over
AsmFinish ==
    /\ asm_pc = "write"
    /\ asm_written = Len(asm_levels)
    /\ asm_pc' = "done"
    /\ UNCHANGED <<asm_input, asm_levels, asm_warnings, asm_output,
                   asm_lvl_bytes, asm_written>>

--------------------------------------------------------------------------
(* Args::Randomize: the random number generator                            *)

\* width of the generator's state and of the words it yields
RngBits == 9

RngMod == 2 ^ RngBits

\* number of steps a uniform float draw is cut into
FloatSteps == 3

\* SmallRng: the next state of the generator, which is also the word drawn
NextRng(r) == (r * 1229 + 351) % RngMod

\* rng.gen_ratio(n, d) on the word w: true with probability n/d
gen_ratio(n, d, w) == w * d < n * RngMod

\* rng.sample(Uniform::new_inclusive(lo, hi)) for integers, on the word w
UniformInt(lo, hi, w) == lo + (w * (hi - lo + 1)) \div RngMod

\* rng.sample(Uniform::new_inclusive(lo, hi)) for f32, on the word w:
\* lo, hi, or one of the points between them
UniformF32(lo, hi, w) ==
    LET k == (w * (FloatSteps + 1)) \div RngMod
    IN  IF k = FloatSteps THEN hi ELSE lo + k * ((hi - lo) \div FloatSteps)

\* an f32 literal whole.frac (five decimals) as 100000 * value
Dec(whole, frac) == whole * 100000 + frac

--------------------------------------------------------------------------
(* Args::Randomize: the rules of the loop body.  A rule takes the level   *)
(* and the generator state and yields the fields it assigns a literal     *)
(* (lit), the fields it assigns from a draw (rnd), and the generator      *)
(* state after its draws.                                                  *)

NoFields == [ f \in {} |-> 0 ]

Keep(r) == [ lit |-> NoFields, rnd |-> NoFields, rng |-> r ]

Lit(f, r) == [ lit |-> f, rnd |-> NoFields, rng |-> r ]

Rnd(g, r) == [ lit |-> NoFields, rnd |-> g, rng |-> r ]

Mix(f, g, r) == [ lit |-> f, rnd |-> g, rng |-> r ]

\* the level after the assignments of a rule
Assign(l, u) ==
    [ f \in DOMAIN l |->
        IF f \in DOMAIN u.rnd THEN u.rnd[f]
        ELSE IF f \in DOMAIN u.lit THEN u.lit[f]
        ELSE l[f] ]

\* let max_miis = match level.map {..}; level.num_miis = rng.sample(..)
R204(l, r) ==
    LET w == NextRng(r)
        max_miis == IF l.map = 4 THEN 40 ELSE 90
    IN  Rnd("num_miis" :> UniformInt(6, max_miis, w), w)

R213(l, r) ==
    Lit("unk12" :> 0 @@ "unk13" :> 0 @@ "unk14" :> 0 @@ "unk15" :> 0
        @@ "unk16" :> 0, r)

\* level.behavior = match level.level_type {..}
R218(l, r) ==
    LET w == NextRng(r)
    IN  CASE l.level_type \in {9, 10, 5, 11, 20} ->
               Rnd("behavior" :> (IF gen_ratio(1, 2, w) THEN 1 ELSE 3), w)
          [] l.level_type \in {17, 18, 19} -> Lit("behavior" :> 0, r)
          [] l.level_type \in {14, 15, 16} -> Lit("behavior" :> 0, r)
          [] l.level_type \in {12, 13} ->
               Rnd("behavior" :> (IF gen_ratio(1, 2, w) THEN 4 ELSE 2), w)
          [] OTHER -> Rnd("behavior" :> UniformInt(0, 6, w), w)

R227(l, r) ==
    LET w == NextRng(r)
    IN  Rnd("map" :> UniformInt(0, 4, w), w)

R228(l, r) ==
    LET w == NextRng(r)
    IN  IF l.map = 4 THEN Rnd("behavior" :> UniformInt(0, 1, w), w) ELSE Keep(r)

\* if level.map == 1 { level.behavior = match level.map { 1 => .. } }
R232(l, r) ==
    LET w1 == NextRng(r)
        w2 == NextRng(w1)
    IN  IF l.map = 1
        THEN IF gen_ratio(1, 4, w1) THEN Rnd("behavior" :> 0, w1)
             ELSE IF gen_ratio(1, 2, w2) THEN Rnd("behavior" :> 1, w2)
             ELSE Rnd("behavior" :> 4, w2)
        ELSE Keep(r)

R240(l, r) ==
    LET w1 == NextRng(r)
        w2 == NextRng(w1)
    IN  Rnd("zoom_out_max" :> UniformF32(-Dec(406, 0), -Dec(135, 0), w1)
            @@ "zoom_in_max" :> UniformF32(-Dec(135, 0), -Dec(22, 0), w2), w2)

R243(l, r) ==
    LET w1 == NextRng(r)
        w2 == NextRng(w1)
    IN  IF gen_ratio(1, 2, w1)
        THEN Rnd("darkness" :> 0, w1)
        ELSE Rnd("darkness" :> UniformF32(Dec(84, 0), Dec(110, 0), w2), w2)

R248(l, r) ==
    LET w == NextRng(r)
    IN  Rnd("head_size" :> UniformF32(Dec(1, 35000), Dec(3, 50000), w), w)

R249(l, r) ==
    IF l.darkness > Dec(1, 0)
    THEN Lit("unk12" :> Dec(3, 0) @@ "unk13" :> Dec(10, 0) @@ "unk14" :> Dec(1, 0)
             @@ "unk15" :> 0 @@ "unk16" :> Dec(6, 0), r)
    ELSE Keep(r)

R257(l, r) ==
    LET w == NextRng(r)
    IN  IF l.map = 3
        THEN Mix("zoom_in_max" :> -Dec(279, 60767),
                 "zoom_out_max" :> (IF gen_ratio(1, 2, w) THEN -Dec(279, 60767)
                                    ELSE -Dec(187, 60767)), w)
        ELSE Keep(r)

R262(l, r) ==
    IF l.map = 3
    THEN Lit("horiz_dist" :> Dec(4, 70000) @@ "vert_dist" :> Dec(22, 40000), r)
    ELSE Keep(r)

R267(l, r) == IF l.map = 4 THEN Lit("unk7" :> Dec(35, 0), r) ELSE Keep(r)

R272(l, r) == IF l.map = 2 THEN Lit("unk7" :> 0, r) ELSE Keep(r)

R277(l, r) == IF l.map = 3 THEN Lit("unk7" :> -Dec(60, 0), r) ELSE Keep(r)

\* Street Mii Bounding Fixes
R282(l, r) ==
    LET w1 == NextRng(r)
        w2 == NextRng(w1)
    IN  IF l.map = 0
        THEN Mix("horiz_dist" :> Dec(35, 0) @@ "vert_dist" :> Dec(97, 0),
                 "zoom_out_max" :> (IF gen_ratio(3, 4, w1) THEN -Dec(199, 0)
                                    ELSE -Dec(205, 0))
                 @@ "zoom_in_max" :> (IF gen_ratio(3, 4, w2) THEN -Dec(199, 0)
                                      ELSE -Dec(205, 0)), w2)
        ELSE Keep(r)

\* Ocean Mii Bounding Fixes
R289(l, r) ==
    LET w1 == NextRng(r)
        w2 == NextRng(w1)
        w3 == NextRng(w2)
        w4 == NextRng(w3)
    IN  IF l.map = 1
        THEN Rnd("zoom_out_max" :> (IF gen_ratio(3, 4, w1) THEN -Dec(180, 0)
                                    ELSE -Dec(240, 0))
                 @@ "zoom_in_max" :> (IF gen_ratio(3, 4, w2) THEN -Dec(180, 0)
                                      ELSE -Dec(240, 0))
                 @@ "horiz_dist" :> (IF gen_ratio(3, 4, w3) THEN Dec(30, 0)
                                     ELSE Dec(40, 0))
                 @@ "vert_dist" :> (IF gen_ratio(3, 4, w4) THEN Dec(90, 0)
                                    ELSE Dec(113, 0)), w4)
        ELSE Keep(r)

\* R298 with a fault: the escalator stage keeps the Mii count it has
R298_NoCap(l, r) == Keep(r)

\* If Escalator Stage: nothing more than 40 miis
R298(l, r) ==
    LET w == NextRng(r)
    IN  IF l.map = 4 THEN Rnd("num_miis" :> UniformInt(8, 40, w), w) ELSE Keep(r)

R302(l, r) == IF l.level_type = 5 THEN Lit("behavior" :> 1, r) ELSE Keep(r)

R307(l, r) == IF l.level_type = 9 THEN Lit("behavior" :> 1, r) ELSE Keep(r)

R312(l, r) == IF l.level_type = 10 THEN Lit("behavior" :> 1, r) ELSE Keep(r)

R317(l, r) == IF l.level_type = 11 THEN Lit("behavior" :> 1, r) ELSE Keep(r)

R322(l, r) == IF l.level_type = 20 THEN Lit("behavior" :> 1, r) ELSE Keep(r)

R327(l, r) ==
    IF l.map = 3 /\ l.level_type \in {17, 18, 19}
    THEN Lit("darkness" :> 0, r) ELSE Keep(r)

\* Fastest Mii Fix on Tennis Stands ("level.level_type == 2;" compares only)
R332(l, r) ==
    IF l.map = 3 /\ l.level_type \in {12, 13}
    THEN Lit("behavior" :> 3, r) ELSE Keep(r)

R338(l, r) ==
    LET w == NextRng(r)
    IN  IF l.level_type = 14
        THEN Rnd("behavior" :> (IF gen_ratio(1, 2, w) THEN 1 ELSE 0), w)
        ELSE Keep(r)

R343(l, r) ==
    LET w == NextRng(r)
    IN  IF l.level_type = 15
        THEN Rnd("behavior" :> (IF gen_ratio(1, 2, w) THEN 1 ELSE 0), w)
        ELSE Keep(r)

R348(l, r) ==
    LET w == NextRng(r)
    IN  IF l.level_type = 16
        THEN Rnd("behavior" :> (IF gen_ratio(1, 2, w) THEN 1 ELSE 0), w)
        ELSE Keep(r)

R354(l, r) ==
    IF l.map = 0 /\ l.level_type \in {14, 15, 16}
    THEN Lit("darkness" :> 0, r) ELSE Keep(r)

\* Street Non Zoom Fixes
R359(l, r) ==
    IF l.map = 0 /\ l.zoom_out_max > -Dec(199, 0)
    THEN Lit("zoom_out_max" :> -Dec(222, 0) @@ "zoom_in_max" :> -Dec(222, 0)
             @@ "horiz_dist" :> Dec(4, 50000) @@ "vert_dist" :> Dec(35, 40000), r)
    ELSE Keep(r)

R369(l, r) ==
    LET w == NextRng(r)
    IN  IF l.map = 0 /\ (l.behavior \in {2, 4, 6} \/ l.level_type \in {14, 15, 16})
        THEN Mix("zoom_out_max" :> -Dec(222, 0) @@ "zoom_in_max" :> -Dec(222, 0)
                 @@ "vert_dist" :> Dec(57, 40000),
                 "horiz_dist" :> (IF gen_ratio(1, 2, w) THEN Dec(33, 40000)
                                  ELSE Dec(57, 0)), w)
        ELSE Keep(r)

\* Darkness doesn't work on Ocean Stages
\* R380 with a fault: the ocean stage keeps the darkness it has drawn
R380_Skipped(l, r) == Keep(r)

R380(l, r) == IF l.map = 1 THEN Lit("darkness" :> 0, r) ELSE Keep(r)

R388(l, r) ==
    IF l.map = 3 /\ l.behavior \in {3, 4, 6}
    THEN Lit("behavior" :> 1, r) ELSE Keep(r)

\* If It's the Space Stage
R394(l, r) ==
    LET w1 == NextRng(r)
        w2 == NextRng(w1)
    IN  IF l.map = 2
        THEN Mix("zoom_out_max" :> -Dec(180, 0),
                 "num_miis" :> UniformInt(20, 30, w1)
                 @@ "zoom_in_max" :> (IF gen_ratio(1, 2, w2) THEN -Dec(180, 0)
                                      ELSE -Dec(297, 47740)), w2)
        ELSE Keep(r)

R405(l, r) ==
    LET w1 == NextRng(r)
        w2 == NextRng(w1)
    IN  IF l.map = 2 /\ l.behavior = 5
        THEN Mix("zoom_out_max" :> -Dec(222, 0) @@ "zoom_in_max" :> -Dec(222, 0)
                 @@ "vert_dist" :> Dec(21, 0),
                 "num_miis" :> UniformInt(8, 12, w1)
                 @@ "horiz_dist" :> (IF gen_ratio(70, 100, w2) THEN Dec(30, 0)
                                     ELSE Dec(35, 0)), w2)
        ELSE Keep(r)

\* find the sleepyhead fix for the escalator stage
R414(l, r) ==
    LET w == NextRng(r)
    IN  IF l.map = 4 /\ l.level_type \in {14, 15, 16}
        THEN Rnd("level_type" :> UniformInt(1, 5, w), w)
        ELSE Keep(r)

R420(l, r) ==
    LET w == NextRng(r)
    IN  IF l.map = 2 /\ l.behavior \in {0, 1}
        THEN Mix("zoom_out_max" :> -Dec(180, 0) @@ "zoom_in_max" :> -Dec(297, 47740)
                 @@ "horiz_dist" :> Dec(26, 90000) @@ "vert_dist" :> Dec(21, 90000),
                 "num_miis" :> UniformInt(8, 10, w), w)
        ELSE Keep(r)

\* level_type == 9 || level_type == 10 || level_type == 10
R430(l, r) ==
    IF l.map = 2 /\ l.level_type \in {9, 10, 10}
    THEN Lit("behavior" :> 1, r) ELSE Keep(r)

R436(l, r) ==
    IF l.map = 1 /\ l.behavior = 6 THEN Lit("behavior" :> 4, r) ELSE Keep(r)

R442(l, r) ==
    LET w1 == NextRng(r)
        w2 == NextRng(w1)
    IN  IF l.map = 4 /\ l.level_type \in {9, 10, 11}
        THEN IF gen_ratio(2, 4, w1) THEN Rnd("level_type" :> 3, w1)
             ELSE IF gen_ratio(2, 4, w2) THEN Rnd("level_type" :> 9, w2)
             ELSE Rnd("level_type" :> 21, w2)
        ELSE Keep(r)

R448(l, r) ==
    IF l.map = 2 /\ l.level_type \in {12, 13}
    THEN Lit("level_type" :> 1, r) ELSE Keep(r)

\* space camera randomizer param 1
R454(l, r) ==
    IF l.map = 2 /\ (l.zoom_out_max = -Dec(180, 0) \/ l.zoom_in_max = -Dec(180, 0))
    THEN Lit("horiz_dist" :> Dec(29, 90000) @@ "vert_dist" :> Dec(16, 90000), r)
    ELSE Keep(r)

\* space camera randomizer param 2
R460(l, r) ==
    IF l.map = 2 /\ (l.zoom_out_max = -Dec(180, 0)
                       \/ l.zoom_in_max = -Dec(297, 47740))
    THEN Lit("horiz_dist" :> Dec(29, 90000) @@ "vert_dist" :> Dec(16, 90000), r)
    ELSE Keep(r)

R467(l, r) ==
    LET w == NextRng(r)
    IN  IF l.map = 2
        THEN Rnd("behavior" :> (IF gen_ratio(1, 2, w) THEN 5 ELSE 1), w)
        ELSE Keep(r)

R472(l, r) ==
    IF l.map = 2 /\ (l.behavior = 5 \/ l.zoom_out_max = -Dec(180, 0)
                       \/ l.zoom_in_max = -Dec(180, 0))
    THEN Lit("horiz_dist" :> Dec(26, 90000) @@ "vert_dist" :> Dec(21, 90000), r)
    ELSE Keep(r)

\* SPACE CAMERA ODD MII OUT PARAM
R478(l, r) ==
    IF l.map = 2 /\ l.behavior = 1
    THEN Lit("horiz_dist" :> Dec(26, 90000) @@ "vert_dist" :> Dec(21, 90000)
             @@ "zoom_out_max" :> -Dec(180, 0)
             @@ "zoom_in_max" :> -Dec(297, 47740), r)
    ELSE Keep(r)

R487(l, r) ==
    IF l.map = 0 /\ (l.zoom_out_max = -Dec(205, 0) \/ l.zoom_in_max = -Dec(199, 0))
    THEN Lit("horiz_dist" :> Dec(22, 40000) @@ "vert_dist" :> Dec(64, 0), r)
    ELSE Keep(r)

R493(l, r) ==
    IF l.map = 1 /\ l.zoom_out_max = -Dec(240, 0)
    THEN Lit("zoom_in_max" :> -Dec(180, 0) @@ "horiz_dist" :> Dec(15, 0)
             @@ "vert_dist" :> Dec(72, 0), r)
    ELSE Keep(r)

\* Find the Sleepyhead Tennis Stands Fix
R500(l, r) ==
    IF l.map = 3 /\ l.level_type \in {14, 15, 16}
    THEN Lit("level_type" :> 21 @@ "behavior" :> 1, r) ELSE Keep(r)

\* Fastest Mii Tennis Stands
R507(l, r) ==
    IF l.map = 3 /\ l.level_type \in {12, 13}
    THEN Lit("level_type" :> 21 @@ "behavior" :> 0, r) ELSE Keep(r)

\* Odd Mii Out Fix Tennis Stands Fix
R515(l, r) ==
    IF l.map = 3 /\ l.level_type \in {9, 10, 11, 20}
    THEN Lit("behavior" :> 1, r) ELSE Keep(r)

R521(l, r) ==
    LET w1 == NextRng(r)
        w2 == NextRng(w1)
    IN  IF l.map = 2
        THEN IF gen_ratio(2, 4, w1)
             THEN Rnd("darkness" :> 0, w1)
             ELSE Rnd("darkness" :> UniformF32(Dec(94, 90000), Dec(135, 0), w2), w2)
        ELSE Keep(r)

\* Insomniac Fix Tennis Stands
R533(l, r) ==
    IF l.map = 3 /\ l.level_type \in {17, 18, 19}
    THEN Lit("level_type" :> 10 @@ "behavior" :> 1, r) ELSE Keep(r)

\* Street Non Zoom Level Fix for Miis
R540(l, r) ==
    IF l.map = 0 /\ (l.zoom_out_max = -Dec(205, 0) \/ l.zoom_in_max = -Dec(205, 0))
    THEN Lit("horiz_dist" :> Dec(4, 70000) @@ "vert_dist" :> Dec(24, 0), r)
    ELSE Keep(r)

R546(l, r) ==
    IF l.map = 1 /\ (l.zoom_out_max = -Dec(180, 0) \/ l.zoom_in_max = -Dec(180, 0))
    THEN Lit("horiz_dist" :> Dec(10, 20000) @@ "vert_dist" :> Dec(17, 40000), r)
    ELSE Keep(r)

R552(l, r) ==
    IF l.map = 0 /\ l.behavior = 5 THEN Lit("behavior" :> 1, r) ELSE Keep(r)

R557(l, r) ==
    IF l.map = 0 /\ (l.zoom_out_max = -Dec(199, 0) \/ l.zoom_in_max = -Dec(199, 0))
    THEN Lit("horiz_dist" :> Dec(4, 0) @@ "vert_dist" :> Dec(11, 0), r)
    ELSE Keep(r)

R563(l, r) ==
    IF l.map = 0 /\ (l.horiz_dist = Dec(10, 20000) \/ l.vert_dist = Dec(17, 40000))
    THEN Lit("horiz_dist" :> Dec(22, 40000) @@ "vert_dist" :> Dec(64, 0)
             @@ "zoom_in_max" :> -Dec(205, 0), r)
    ELSE Keep(r)

R570(l, r) ==
    IF l.map = 2 /\ l.level_type \in {12, 13}
    THEN Lit("horiz_dist" :> Dec(16, 30000) @@ "vert_dist" :> Dec(12, 80000), r)
    ELSE Keep(r)

\* Darkness Find The Odd Mii Out fix on Space Stages
R575(l, r) ==
    IF l.map = 2 /\ l.level_type \in {9, 10, 11}
    THEN Lit("darkness" :> 0, r) ELSE Keep(r)

\* Yet Another Find the Fastest Mii Escalator Fix
R581(l, r) ==
    LET w == NextRng(r)
    IN  IF l.map = 4 /\ l.level_type = 13
        THEN Mix("behavior" :> 1,
                 "level_type" :> (IF gen_ratio(2, 4, w) THEN 10 ELSE 2), w)
        ELSE Keep(r)

\* Yet Another Find the Fastest Mii Escalator Fix For Type 12
R589(l, r) ==
    LET w == NextRng(r)
    IN  IF l.map = 4 /\ l.level_type = 12
        THEN Mix("behavior" :> 1,
                 "level_type" :> (IF gen_ratio(2, 4, w) THEN 10 ELSE 2), w)
        ELSE Keep(r)

\* R595 with a fault: objective 17 keeps the behavior it has
R595_Skipped(l, r) == Keep(r)

R595(l, r) == IF l.level_type = 17 THEN Lit("behavior" :> 0, r) ELSE Keep(r)

R600(l, r) == IF l.level_type = 18 THEN Lit("behavior" :> 0, r) ELSE Keep(r)

R605(l, r) == IF l.level_type = 19 THEN Lit("behavior" :> 0, r) ELSE Keep(r)

\* "Find 3 odd miis out" doesnt work with Darkness on this stage
R610(l, r) ==
    IF l.map = 0 /\ (l.level_type = 11 \/ l.darkness > Dec(0, 10000))
    THEN Lit("level_type" :> 10, r) ELSE Keep(r)

\* Street Mii Bounding Fix for Odd Mii out
R616(l, r) ==
    IF l.map = 0 /\ l.level_type \in {9, 10}
    THEN Lit("behavior" :> 1, r) ELSE Keep(r)

\* Ocean Behavior Fix for Fastest Mii Levels
R622(l, r) ==
    LET w == NextRng(r)
    IN  IF l.map = 1 /\ l.level_type \in {12, 13}
        THEN Rnd("behavior" :> (IF gen_ratio(3, 5, w) THEN 4 ELSE 6), w)
        ELSE Keep(r)

R627(l, r) ==
    IF l.map = 0 /\ (l.zoom_out_max = -Dec(222, 0) \/ l.zoom_in_max = -Dec(222, 0)
                       \/ l.behavior \in {0, 1, 3, 5})
    THEN Lit("horiz_dist" :> Dec(11, 40000) @@ "vert_dist" :> Dec(12, 90000), r)
    ELSE Keep(r)

R633(l, r) ==
    IF l.map = 3 /\ l.behavior = 5
    THEN Lit("behavior" :> 1 @@ "level_type" :> 10, r) ELSE Keep(r)

R638(l, r) ==
    IF l.map = 1 /\ (l.zoom_out_max = -Dec(180, 0) \/ l.zoom_out_max = -Dec(180, 0))
    THEN Lit("horiz_dist" :> Dec(8, 20000) @@ "vert_dist" :> Dec(12, 40000), r)
    ELSE Keep(r)

\* Fix for "Find The Insomniac" levels (on map 1)
R645(l, r) ==
    IF l.map = 1 /\ l.level_type \in {17, 18, 19}
    THEN Lit("behavior" :> 1 @@ "level_type" :> 21, r) ELSE Keep(r)

\* Ocean Mii Behavior 4 Fix
R651(l, r) ==
    IF l.map = 1 /\ (l.zoom_out_max = -Dec(240, 0) \/ l.zoom_out_max = -Dec(240, 0)
                       \/ l.behavior \in {4, 2, 6})
    THEN Lit("horiz_dist" :> Dec(38, 20000) @@ "vert_dist" :> Dec(26, 40000), r)
    ELSE Keep(r)

\* Yet another Mii Behavior Type 3 fix for the tennis stands stages
R657(l, r) ==
    IF l.map = 3 /\ l.behavior = 3 THEN Lit("behavior" :> 1, r) ELSE Keep(r)

\* Find 3 look alikes doesn't work on Tennis Stands with darkness
R662(l, r) ==
    IF l.map = 3 /\ (l.level_type \in {2, 4} \/ l.darkness > Dec(0, 10000))
    THEN Lit("level_type" :> 10 @@ "behavior" :> 1, r) ELSE Keep(r)

\* Yet Another Ocean Mii Position Fix
R668(l, r) ==
    IF l.map = 1 /\ (l.zoom_out_max = -Dec(240, 0) \/ l.zoom_out_max = -Dec(240, 0)
                       \/ l.behavior \in {2, 4, 6})
    THEN Lit("horiz_dist" :> Dec(40, 60000) @@ "vert_dist" :> Dec(60, 40000), r)
    ELSE Keep(r)

\* Find 3 - 5 look alikes doesn't work on Street Stages with darkness
R675(l, r) ==
    IF l.map = 0 /\ (l.level_type \in {2, 3, 4} \/ l.darkness > Dec(0, 10000))
    THEN Lit("level_type" :> 8 @@ "behavior" :> 4, r) ELSE Keep(r)

\* Hopefully the last Tennis Mii Pos Fix
R681(l, r) ==
    IF l.map = 3 /\ (l.zoom_out_max = -Dec(279, 60767)
                       \/ l.zoom_out_max = -Dec(279, 60767))
    THEN Lit("horiz_dist" :> Dec(5, 40000) @@ "vert_dist" :> Dec(8, 20000), r)
    ELSE Keep(r)

\* Screen Bounding Fix for Street Levels with walking Miis
R687(l, r) ==
    LET w1 == NextRng(r)
        w2 == NextRng(w1)
    IN  IF l.map = 0 /\ (l.behavior = 4 \/ l.zoom_out_max = -Dec(222, 0)
                           \/ l.zoom_out_max = -Dec(222, 0))
        THEN Mix("unk7" :> Dec(17, 0) @@ "vert_dist" :> Dec(117, 0)
                 @@ "zoom_in_max" :> -Dec(200, 0) @@ "zoom_out_max" :> -Dec(200, 0),
                 "horiz_dist" :> UniformF32(Dec(30, 0), Dec(38, 30000), w1)
                 @@ "num_miis" :> UniformInt(8, 45, w2), w2)
        ELSE Keep(r)

\* Yet Again, Another Ocean Mii Position Fix
R699(l, r) ==
    IF l.map = 1 /\ (l.zoom_out_max = -Dec(240, 0) \/ l.zoom_out_max = -Dec(240, 0)
                       \/ l.behavior \in {0, 1, 3})
    THEN Lit("zoom_out_max" :> -Dec(255, 0) @@ "zoom_in_max" :> -Dec(255, 0)
             @@ "horiz_dist" :> Dec(6, 40000) @@ "vert_dist" :> Dec(17, 10000), r)
    ELSE Keep(r)

\* Offscreen Miis Fix
R707(l, r) ==
    LET w == NextRng(r)
    IN  IF l.map = 1 /\ l.zoom_out_max = -Dec(255, 0)
        THEN Rnd("num_miis" :> UniformInt(8, 64, w), w)
        ELSE Keep(r)

\* Find 5 Lookalikes darkness fix
R714(l, r) ==
    IF l.map = 4 /\ (l.level_type \in {3, 4} \/ l.darkness > Dec(0, 10000))
    THEN Lit("level_type" :> 21, r) ELSE Keep(r)

\* I really really hope this is the last bounding fix
R719(l, r) ==
    IF l.map = 1 /\ (l.zoom_out_max = -Dec(255, 0) \/ l.zoom_in_max = -Dec(255, 0)
                       \/ l.behavior \in {2, 4, 6})
    THEN Lit("horiz_dist" :> Dec(40, 60000) @@ "vert_dist" :> Dec(60, 40000)
             @@ "unk7" :> 0, r)
    ELSE Keep(r)

\* Nope.
R728(l, r) ==
    IF l.map = 1 /\ (l.zoom_out_max = -Dec(255, 0) \/ l.zoom_in_max = -Dec(255, 0)
                       \/ l.behavior \in {0, 1, 3})
    THEN Lit("horiz_dist" :> Dec(6, 40000) @@ "vert_dist" :> Dec(17, 10000)
             @@ "unk7" :> 0, r)
    ELSE Keep(r)

\* level_type == 17 || level_type == 18 || level_type == 18
R735(l, r) ==
    IF l.map = 4 /\ l.level_type \in {17, 18, 18}
    THEN Lit("behavior" :> 1 @@ "level_type" :> 2, r) ELSE Keep(r)

--------------------------------------------------------------------------
(* SpecRandomize: Args::Randomize, run twice from the same seed            *)

\* the source line of every rule of the loop body, in program order
RuleLines ==
    <<
       204, 213, 218, 227, 228, 232, 240, 243, 248, 249, 257, 262,
       267, 272, 277, 282, 289, 298, 302, 307, 312, 317, 322, 327,
       332, 338, 343, 348, 354, 359, 369, 380, 388, 394, 405, 414,
       420, 430, 436, 442, 448, 454, 460, 467, 472, 478, 487, 493,
       500, 507, 515, 521, 533, 540, 546, 552, 557, 563, 570, 575,
       581, 589, 595, 600, 605, 610, 616, 622, 627, 633, 638, 645,
       651, 657, 662, 668, 675, 681, 687, 699, 707, 714, 719, 728,
       735 >>

NumRules == Len(RuleLines)

\* the k-th rule of the loop body
RuleAt(k, l, r) ==
    LET n == RuleLines[k]
    IN  CASE n = 204 -> R204(l, r)
          [] n = 213 -> R213(l, r)
          [] n = 218 -> R218(l, r)
          [] n = 227 -> R227(l, r)
          [] n = 228 -> R228(l, r)
          [] n = 232 -> R232(l, r)
          [] n = 240 -> R240(l, r)
          [] n = 243 -> R243(l, r)
          [] n = 248 -> R248(l, r)
          [] n = 249 -> R249(l, r)
          [] n = 257 -> R257(l, r)
          [] n = 262 -> R262(l, r)
          [] n = 267 -> R267(l, r)
          [] n = 272 -> R272(l, r)
          [] n = 277 -> R277(l, r)
          [] n = 282 -> R282(l, r)
          [] n = 289 -> R289(l, r)
          [] n = 298 -> R298(l, r)
          [] n = 302 -> R302(l, r)
          [] n = 307 -> R307(l, r)
          [] n = 312 -> R312(l, r)
          [] n = 317 -> R317(l, r)
          [] n = 322 -> R322(l, r)
          [] n = 327 -> R327(l, r)
          [] n = 332 -> R332(l, r)
          [] n = 338 -> R338(l, r)
          [] n = 343 -> R343(l, r)
          [] n = 348 -> R348(l, r)
          [] n = 354 -> R354(l, r)
          [] n = 359 -> R359(l, r)
          [] n = 369 -> R369(l, r)
          [] n = 380 -> R380(l, r)
          [] n = 388 -> R388(l, r)
          [] n = 394 -> R394(l, r)
          [] n = 405 -> R405(l, r)
          [] n = 414 -> R414(l, r)
          [] n = 420 -> R420(l, r)
          [] n = 430 -> R430(l, r)
          [] n = 436 -> R436(l, r)
          [] n = 442 -> R442(l, r)
          [] n = 448 -> R448(l, r)
          [] n = 454 -> R454(l, r)
          [] n = 460 -> R460(l, r)
          [] n = 467 -> R467(l, r)
          [] n = 472 -> R472(l, r)
          [] n = 478 -> R478(l, r)
          [] n = 487 -> R487(l, r)
          [] n = 493 -> R493(l, r)
          [] n = 500 -> R500(l, r)
          [] n = 507 -> R507(l, r)
          [] n = 515 -> R515(l, r)
          [] n = 521 -> R521(l, r)
          [] n = 533 -> R533(l, r)
          [] n = 540 -> R540(l, r)
          [] n = 546 -> R546(l, r)
          [] n = 552 -> R552(l, r)
          [] n = 557 -> R557(l, r)
          [] n = 563 -> R563(l, r)
          [] n = 570 -> R570(l, r)
          [] n = 575 -> R575(l, r)
          [] n = 581 -> R581(l, r)
          [] n = 589 -> R589(l, r)
          [] n = 595 -> R595(l, r)
          [] n = 600 -> R600(l, r)
          [] n = 605 -> R605(l, r)
          [] n = 610 -> R610(l, r)
          [] n = 616 -> R616(l, r)
          [] n = 622 -> R622(l, r)
          [] n = 627 -> R627(l, r)
          [] n = 633 -> R633(l, r)
          [] n = 638 -> R638(l, r)
          [] n = 645 -> R645(l, r)
          [] n = 651 -> R651(l, r)
          [] n = 657 -> R657(l, r)
          [] n = 662 -> R662(l, r)
          [] n = 668 -> R668(l, r)
          [] n = 675 -> R675(l, r)
          [] n = 681 -> R681(l, r)
          [] n = 687 -> R687(l, r)
          [] n = 699 -> R699(l, r)
          [] n = 707 -> R707(l, r)
          [] n = 714 -> R714(l, r)
          [] n = 719 -> R719(l, r)
          [] n = 728 -> R728(l, r)
          [] n = 735 -> R735(l, r)

\* the k-th rule assigns something to level l
Fires(k, l, r) ==
    LET u == RuleAt(k, l, r)
    IN  DOMAIN u.lit # {} \/ DOMAIN u.rnd # {}

RECURSIVE NextRule(_, _, _)
\* the first rule from the k-th on whose condition holds in some run;
\* NumRules + 1 when the loop body is over
NextRule(k, ls, rs) ==
    IF k > NumRules THEN k
    ELSE IF \E run \in DOMAIN ls : Fires(k, ls[run], rs[run]) THEN k
    ELSE NextRule(k + 1, ls, rs)

\* the level_type of level n (lines 176-202): the type, the accumulator,
\* the generator state, and whether the type is one of the literals 6, 7
level_type_decision(n, last, pending, r) ==
    LET w == NextRng(r)
    IN  IF n = last
        THEN IF pending
             THEN [ level_type |-> 7, favorite_pending |-> FALSE, rng |-> r,
                    literal |-> TRUE ]
             ELSE LET t == UniformInt(1, 19, w)
                  IN  [ level_type |-> IF t > 5 THEN t + 2 ELSE t,
                        favorite_pending |-> pending, rng |-> w, literal |-> FALSE ]
        ELSE LET t == UniformInt(1, 21, w)
             IN  IF t = 6 \/ t = 7
                 THEN IF pending
                      THEN [ level_type |-> 7, favorite_pending |-> FALSE, rng |-> w,
                             literal |-> TRUE ]
                      ELSE [ level_type |-> 6, favorite_pending |-> TRUE, rng |-> w,
                             literal |-> TRUE ]
                 ELSE [ level_type |-> t, favorite_pending |-> pending, rng |-> w,
                        literal |-> FALSE ]

MaxLevels == 3

\* the two runs that are compared
Runs == { 1, 2 }

Fields == { FieldNames[k] : k \in 1 .. Len(FieldNames) }

\* levels of an input file: all zero, and one with every field set
InputZero == [ f \in Fields |-> 0 ]

InputSet ==
    [ num_miis |-> 99, behavior |-> 2, level_type |-> 6, map |-> 4,
      zoom_out_max |-> -Dec(100, 0), zoom_in_max |-> -Dec(50, 0),
      unk7 |-> Dec(12, 50000), horiz_dist |-> Dec(77, 0), vert_dist |-> Dec(88, 0),
      darkness |-> Dec(100, 0), head_size |-> Dec(2, 0),
      unk12 |-> Dec(1, 0), unk13 |-> Dec(2, 0), unk14 |-> Dec(3, 0),
      unk15 |-> Dec(4, 0), unk16 |-> Dec(5, 0) ]

\* the tables Level::from_file may have returned, n levels long
InputTables(n) == { [ k \in 1 .. n |-> lv ] : lv \in { InputZero, InputSet } }

\* the input of the second run: every level zero
ZeroTable(n) == [ k \in 1 .. n |-> InputZero ]

InitRandomize ==
    /\ seed \in 0 .. (RngMod - 1)
    /\ rng = [ run \in Runs |-> seed ]
    /\ levels \in UNION { { [ run \in Runs |-> IF run = 1 THEN t ELSE ZeroTable(n) ] :
                              t \in InputTables(n) } : n \in 0 .. MaxLevels }
    /\ favorite_pending = [ run \in Runs |-> FALSE ]
    /\ last_idx = 0
    /\ i = 0
    /\ rule = 0
    /\ fixed = [ run \in Runs |-> {} ]
    /\ rand_output = [ run \in Runs |-> [ created |-> FALSE, records |-> << >> ] ]
    /\ rand_written = 0
    /\ rand_pc = "begin"

IdleRandomize ==
    /\ seed = 0
    /\ rng = [ run \in Runs |-> 0 ]
    /\ levels = [ run \in Runs |-> << >> ]
    /\ favorite_pending = [ run \in Runs |-> FALSE ]
    /\ last_idx = 0
    /\ i = 0
    /\ rule = 0
    /\ fixed = [ run \in Runs |-> {} ]
    /\ rand_output = [ run \in Runs |-> [ created |-> FALSE, records |-> << >> ] ]
    /\ rand_written = 0
    /\ rand_pc = "idle"

\* levels.len(), the same in both runs
NumLevels == Len(levels[1])

\* let last_idx = levels.len() - 1, on a table that is not empty
RandBegin ==
    /\ rand_pc = "begin"
    /\ NumLevels >= 1
    /\ last_idx' = NumLevels - 1
    /\ rand_pc' = "loop"
    /\ UNCHANGED <<seed, rng, levels, favorite_pending, i, rule, fixed,
                   rand_output, rand_written>>

\* levels.len() - 1 on an empty table, overflow checks on: the run panics
RandBeginPanics ==
    /\ rand_pc = "begin"
    /\ NumLevels = 0
    /\ rand_pc' = "failed"
    /\ UNCHANGED <<seed, rng, levels, favorite_pending, last_idx, i, rule, fixed,
                   rand_output, rand_written>>

\* levels.len() - 1 on an empty table, overflow checks off: last_idx wraps
\* to usize::MAX (kept as -1) and the loop body never runs
RandBeginWraps ==
    /\ rand_pc = "begin"
    /\ NumLevels = 0
    /\ last_idx' = -1
    /\ rand_pc' = "create"
    /\ UNCHANGED <<seed, rng, levels, favorite_pending, i, rule, fixed,
                   rand_output, rand_written>>

\* level.level_type = if (i == last_idx) {..} else {..}, for level i
RandDecideType ==
    /\ rand_pc = "loop"
    /\ rule = 0
    /\ LET d == [ run \in Runs |->
                    level_type_decision(i, last_idx, favorite_pending[run], rng[run]) ]
       IN  /\ levels' = [ run \in Runs |->
                            [ levels[run] EXCEPT ![i + 1].level_type = d[run].level_type ] ]
           /\ favorite_pending' = [ run \in Runs |-> d[run].favorite_pending ]
           /\ rng' = [ run \in Runs |-> d[run].rng ]
           /\ fixed' = [ run \in Runs |->
                           IF d[run].literal THEN { "level_type" } ELSE {} ]
    /\ rule' = 1
    /\ UNCHANGED <<seed, last_idx, i, rand_output, rand_written, rand_pc>>

\* the next rule of the loop body whose condition holds, on level i; the
\* rules after it whose conditions do not hold are passed over, and after
\* the last rule the loop moves to the next level, or ends
RandApplyRule ==
    /\ rand_pc = "loop"
    /\ rule >= 1
    /\ \E u \in { [ run \in Runs |-> RuleAt(rule, levels[run][i + 1], rng[run]) ] } :
       \E l \in { [ run \in Runs |-> Assign(levels[run][i + 1], u[run]) ] } :
       \E g \in { [ run \in Runs |-> u[run].rng ] } :
       \E n \in { NextRule(rule + 1, l, g) } :
           /\ levels' = [ run \in Runs |-> [ levels[run] EXCEPT ![i + 1] = l[run] ] ]
           /\ rng' = g
           /\ fixed' = [ run \in Runs |->
                           (fixed[run] \ DOMAIN u[run].rnd) \cup DOMAIN u[run].lit ]
           /\ IF n <= NumRules
              THEN /\ rule' = n
                   /\ UNCHANGED <<i, rand_pc>>
              ELSE /\ rule' = 0
                   /\ i' = i + 1
                   /\ rand_pc' = IF i + 1 = NumLevels THEN "create" ELSE "loop"
    /\ UNCHANGED <<seed, favorite_pending, last_idx, rand_output, rand_written>>

\* File::create(output).unwrap()
RandCreate ==
    /\ rand_pc = "create"
    /\ rand_output' = [ run \in Runs |-> [ created |-> TRUE, records |-> << >> ] ]
    /\ rand_pc' = "write"
    /\ UNCHANGED <<seed, rng, levels, favorite_pending, last_idx, i, rule, fixed,
                   rand_written>>

RandCreateFails ==
    /\ rand_pc = "create"
    /\ rand_pc' = "failed"
    /\ UNCHANGED <<seed, rng, levels, favorite_pending, last_idx, i, rule, fixed,
                   rand_output, rand_written>>

\* one iteration of Level::to_file: the record of the next level is written
RandWriteRecord ==
    /\ rand_pc = "write"
    /\ rand_written < NumLevels
    /\ rand_output' = [ run \in Runs |->
                          [ rand_output[run] EXCEPT
                              !.records = Append(@, levels[run][rand_written + 1]) ] ]
    /\ rand_written' = rand_written + 1
    /\ UNCHANGED <<seed, rng, levels, favorite_pending, last_idx, i, rule, fixed,
                   rand_pc>>

RandWriteFails ==
    /\ rand_pc = "write"
    /\ rand_written < NumLevels
    /\ rand_pc' = "failed"
    /\ UNCHANGED <<seed, rng, levels, favorite_pending, last_idx, i, rule, fixed,
                   rand_output, rand_written>>

RandFinish ==
    /\ rand_pc = "write"
    /\ rand_written = NumLevels
    /\ rand_pc' = "done"
    /\ UNCHANGED <<seed, rng, levels, favorite_pending, last_idx, i, rule, fixed,
                   rand_output, rand_written>>

--------------------------------------------------------------------------

InitC ==
    /\ InitCodec
    /\ IdleFromFile
    /\ IdleAssemble
    /\ IdleRandomize

NextCodec ==
    \/ (Decode /\ UNCHANGED <<fileVars, asmVars, randVars>>)
    \/ (Encode /\ UNCHANGED <<fileVars, asmVars, randVars>>)

SpecCodec == InitC /\ [][NextCodec]_vars

InitF ==
    /\ IdleCodec
    /\ InitFromFile
    /\ IdleAssemble
    /\ IdleRandomize

NextFromFile ==
    \/ (ReadRecord /\ UNCHANGED <<codecVars, asmVars, randVars>>)
    \/ (ReadEof /\ UNCHANGED <<codecVars, asmVars, randVars>>)

SpecFromFile == InitF /\ [][NextFromFile]_vars

InitA ==
    /\ IdleCodec
    /\ IdleFromFile
    /\ InitAssemble
    /\ IdleRandomize

NextAssemble ==
    \/ (AsmOpen /\ UNCHANGED <<codecVars, fileVars, randVars>>)
    \/ (AsmOpenFails /\ UNCHANGED <<codecVars, fileVars, randVars>>)
    \/ (AsmParse /\ UNCHANGED <<codecVars, fileVars, randVars>>)
    \/ (AsmParseFails /\ UNCHANGED <<codecVars, fileVars, randVars>>)
    \/ (AsmValidate /\ UNCHANGED <<codecVars, fileVars, randVars>>)
    \/ (AsmCreate /\ UNCHANGED <<codecVars, fileVars, randVars>>)
    \/ (AsmCreateFails /\ UNCHANGED <<codecVars, fileVars, randVars>>)
    \/ (AsmWriteRecord /\ UNCHANGED <<codecVars, fileVars, randVars>>)
    \/ (AsmWriteFails /\ UNCHANGED <<codecVars, fileVars, randVars>>)
    \/ (AsmFinish /\ UNCHANGED <<codecVars, fileVars, randVars>>)

SpecAssemble == InitA /\ [][NextAssemble]_vars

InitR ==
    /\ IdleCodec
    /\ IdleFromFile
    /\ IdleAssemble
    /\ InitRandomize

NextRandomize ==
    \/ (RandBegin /\ UNCHANGED <<codecVars, fileVars, asmVars>>)
    \/ (RandBeginPanics /\ UNCHANGED <<codecVars, fileVars, asmVars>>)
    \/ (RandBeginWraps /\ UNCHANGED <<codecVars, fileVars, asmVars>>)
    \/ (RandDecideType /\ UNCHANGED <<codecVars, fileVars, asmVars>>)
    \/ (RandApplyRule /\ UNCHANGED <<codecVars, fileVars, asmVars>>)
    \/ (RandCreate /\ UNCHANGED <<codecVars, fileVars, asmVars>>)
    \/ (RandCreateFails /\ UNCHANGED <<codecVars, fileVars, asmVars>>)
    \/ (RandWriteRecord /\ UNCHANGED <<codecVars, fileVars, asmVars>>)
    \/ (RandWriteFails /\ UNCHANGED <<codecVars, fileVars, asmVars>>)
    \/ (RandFinish /\ UNCHANGED <<codecVars, fileVars, asmVars>>)

SpecRandomize == InitR /\ [][NextRandomize]_vars

--------------------------------------------------------------------------
(* C4: for every 64-byte buffer b, to_bytes(from_bytes(b)) writes exactly  *)
(* b into the output buffer, whatever that buffer held before: every one   *)
(* of the 64 output bytes equals the input byte at the same offset.        *)
C4_RoundTrip ==
    cPc = "done" => \A o \in Offsets : cOut[o] = cIn[o]

\* a record with a non-zero word has been decoded and written over a buffer
\* that held other bytes
C4_Witness ==
    /\ cPc = "done"
    /\ cLevel.darkness = << 127 * 256 + 192, 1 >>
    /\ cOut = cIn
    /\ \E o \in Offsets : cIn[o] # 170

(* C5: decoding a stream whose length is not a multiple of 64 fails with   *)
(* TruncatedRecord and yields zero records.                                *)
C5_TruncatedFails ==
    (fPc = "returned" /\ Len(stream) % RecordSize # 0)
        => (fResult = "TruncatedRecord" /\ fLevels = << >>)

--------------------------------------------------------------------------
(* Properties of SpecAssemble                                              *)

\* the validation scan is over
AsmValidated == asm_pc \in { "create", "write", "done" }

\* a 3-level table, level 0 of type 6, no level of type 7 after it
ScenarioB(table) ==
    /\ Len(table) = 3
    /\ table[1].level_type = U32(6)
    /\ table[2].level_type # U32(7)
    /\ table[3].level_type # U32(7)

KindCount(warnings, kind) ==
    Cardinality({ k \in 1 .. Len(warnings) : warnings[k].kind = kind })

\* the index (from 0) of every level of type 6 after level 0
LaterPicks(table) == { k - 1 : k \in { j \in 2 .. Len(table) : table[j].level_type = U32(6) } }

\* behaviour and Mii count of the level raise no warning
QuietLevel(level) ==
    /\ level.level_type \in { U32(9), U32(10), U32(11) }
         => level.behavior \in { U32(1), U32(3) }
    /\ level.level_type \in { U32(17), U32(18), U32(19) }
         => level.behavior = U32(0)
    /\ ~WordGt(level.num_miis, IF level.map = U32(4) THEN 40 ELSE 99)

(* C6 as claimed: for every 3-level table with level 0 of type 6 and no    *)
(* type 7 at levels 1 and 2, the validation scan emits exactly one         *)
(* warning, the end-of-table UnresolvedFavoritePairing, whatever the       *)
(* other fields are.                                                       *)
C6_ExactlyOneWarning ==
    (AsmValidated /\ ScenarioB(asm_levels))
        => asm_warnings = << Warn("UnresolvedFavoritePairing", 3) >>

(* C6 as amended: on such a table the scan emits exactly one               *)
(* UnresolvedFavoritePairing, as its last warning, and no                  *)
(* UnmatchedFindFavorite; it emits a DuplicatePickFavorite exactly for     *)
(* the levels 1 and 2 of type 6; and the unresolved-pairing warning is the *)
(* only warning when no later level has type 6, every behaviour is         *)
(* compatible with its objective and every Mii count is within its cap.    *)
C6_ScenarioB ==
    (AsmValidated /\ ScenarioB(asm_levels))
        => /\ KindCount(asm_warnings, "UnresolvedFavoritePairing") = 1
           /\ asm_warnings[Len(asm_warnings)] = Warn("UnresolvedFavoritePairing", 3)
           /\ KindCount(asm_warnings, "UnmatchedFindFavorite") = 0
           /\ { w.idx : w \in { asm_warnings[k] : k \in { j \in 1 .. Len(asm_warnings) :
                      asm_warnings[j].kind = "DuplicatePickFavorite" } } }
                = LaterPicks(asm_levels)
           /\ (LaterPicks(asm_levels) = {}
                 /\ \A k \in 1 .. 3 : QuietLevel(asm_levels[k]))
                => asm_warnings = << Warn("UnresolvedFavoritePairing", 3) >>

\* a scenario-B table with nothing else to warn about has been scanned
C6_Witness ==
    /\ AsmValidated
    /\ ScenarioB(asm_levels)
    /\ asm_levels[2].level_type = U32(9)
    /\ \A k \in 1 .. 3 : QuietLevel(asm_levels[k])
    /\ asm_warnings = << Warn("UnresolvedFavoritePairing", 3) >>

\* the k-th 64-byte record of a file
FileRecord(file, k) == [ o \in Offsets |-> file[(k - 1) * RecordSize + o + 1] ]

(* C7: the validation scan is advisory: whatever it prints, the levels are *)
(* the parsed ones afterwards, the step after the scan is the creation of  *)
(* the output, and a finished run has written one 64-byte record per       *)
(* level, in input order, each decoding to exactly the input level.        *)
C7_Advisory ==
    /\ [](AsmValidated => asm_levels = asm_input.levels)
    /\ [](asm_pc = "done" =>
            /\ Len(asm_output.bytes) = RecordSize * Len(asm_input.levels)
            /\ \A k \in 1 .. Len(asm_input.levels) :
                 from_bytes(FileRecord(asm_output.bytes, k)) = asm_input.levels[k])
    /\ [][asm_pc = "validate" => asm_pc' = "create"]_vars

\* a table that draws warnings has been written out completely
C7_Witness ==
    /\ asm_pc = "done"
    /\ Len(asm_levels) = 3
    /\ Len(asm_warnings) >= 3
    /\ asm_levels[1] # asm_levels[2]
    /\ Len(asm_output.bytes) = 3 * RecordSize

(* C9: a run that has failed has committed no output: the output file has  *)
(* not been created and holds no records.                                  *)
C9_NothingCommitted ==
    asm_pc = "failed" => (~asm_output.created /\ asm_output.bytes = << >>)

\* the level is a 'pick your favorite' or a 'find your favorite'
IsFavorite(level) == level.level_type \in { U32(6), U32(7) }

\* the level types of the favorite levels among the first k, in order
FavoriteTypes(table, k) ==
    LET sel == SelectSeq(SubSeq(table, 1, k), IsFavorite)
    IN  [ j \in 1 .. Len(sel) |-> sel[j].level_type ]

\* 6, 7, 6, 7, ..: starts with 6, ends with 7, or is empty
Alternates(types) ==
    /\ Len(types) % 2 = 0
    /\ \A j \in 1 .. Len(types) :
         types[j] = (IF j % 2 = 1 THEN U32(6) ELSE U32(7))

\* a pick is open after the first k levels: the last favorite level among
\* them, if there is one, is of type 6
PendingAfter(table, k) ==
    LET types == FavoriteTypes(table, k)
    IN  Len(types) > 0 /\ types[Len(types)] = U32(6)

\* the warnings the scan has printed, as a set
Printed == { asm_warnings[k] : k \in 1 .. Len(asm_warnings) }

(* C12: the scan prints no pairing warning exactly when the levels of type *)
(* 6 or 7 alternate 6, 7, .., 6, 7 (or there are none); it prints the      *)
(* duplicate warning for a level exactly when that level is of type 6 and  *)
(* a pick is open before it, the unmatched warning exactly when it is of   *)
(* type 7 and no pick is open before it, where a pick is open after a      *)
(* level of type 6 and closed after one of type 7 whether or not a warning *)
(* was printed; and the end-of-table warning exactly when a pick is open   *)
(* after the last level.                                                   *)
C12_PairingScan ==
    AsmValidated =>
        /\ ({ w.kind : w \in Printed } \cap PairingKinds = {})
             <=> Alternates(FavoriteTypes(asm_levels, Len(asm_levels)))
        /\ \A k \in 1 .. Len(asm_levels) :
             /\ Warn("DuplicatePickFavorite", k - 1) \in Printed
                  <=> (asm_levels[k].level_type = U32(6)
                       /\ PendingAfter(asm_levels, k - 1))
             /\ Warn("UnmatchedFindFavorite", k - 1) \in Printed
                  <=> (asm_levels[k].level_type = U32(7)
                       /\ ~PendingAfter(asm_levels, k - 1))
        /\ ("UnresolvedFavoritePairing" \in { w.kind : w \in Printed })
             <=> PendingAfter(asm_levels, Len(asm_levels))
        /\ KindCount(asm_warnings, "UnresolvedFavoritePairing") <= 1

\* a table with a second pick before the find has been scanned: one
\* duplicate warning, the pick still open after it, closed by the find
C12_Witness ==
    /\ AsmValidated
    /\ Len(asm_levels) = 3
    /\ asm_levels[1].level_type = U32(6)
    /\ asm_levels[2].level_type = U32(6)
    /\ asm_levels[3].level_type = U32(7)
    /\ asm_warnings = << Warn("DuplicatePickFavorite", 1) >>

--------------------------------------------------------------------------
(* Properties of SpecRandomize                                             *)

\* a written level as the decoder hands it to the validation scan: the four
\* integer fields as 32-bit words
WrittenLevel(level) ==
    [ DefaultWords EXCEPT
        !.num_miis = U32(level.num_miis), !.behavior = U32(level.behavior),
        !.level_type = U32(level.level_type), !.map = U32(level.map) ]

\* the table a finished run has written
WrittenTable(run) ==
    [ k \in 1 .. Len(rand_output[run].records) |->
        WrittenLevel(rand_output[run].records[k]) ]

\* the kinds of warning the validation scan prints for a table
WarningKinds(table) ==
    { ValidationPass(table)[k].kind : k \in 1 .. Len(ValidationPass(table)) }

(* C1: the validation scan over a table that randomize has written, taken  *)
(* with the level_type every level has after the whole rule chain, prints  *)
(* none of the three pairing warnings.                                     *)
C1_PairingInvariant ==
    (rand_pc = "done" /\ NumLevels >= 1) =>
        \A run \in Runs : WarningKinds(WrittenTable(run)) \cap PairingKinds = {}

(* C2: two runs from the same seed over input tables of the same length    *)
(* write the same records, whatever the input tables hold.                 *)
C2_Determinism ==
    rand_pc = "done" => rand_output[1].records = rand_output[2].records

(* C3: every level randomize has written has num_miis <= 40 when its map   *)
(* is 4 and num_miis <= 99 otherwise.                                      *)
C3_CapInvariant ==
    \A run \in Runs : \A k \in 1 .. Len(rand_output[run].records) :
        LET level == rand_output[run].records[k]
        IN  level.num_miis <= (IF level.map = 4 THEN 40 ELSE 99)

\* a finished run has written an escalator level, and a level of another
\* map with more Miis than the escalator holds
C3_Witness ==
    /\ rand_pc = "done"
    /\ \E run \in Runs : \E k, j \in 1 .. Len(rand_output[run].records) :
         /\ rand_output[run].records[k].map = 4
         /\ rand_output[run].records[k].num_miis >= 8
         /\ rand_output[run].records[j].map # 4
         /\ rand_output[run].records[j].num_miis > 40

(* C8: every level randomize has written whose level_type is 9, 10 or 11   *)
(* has behavior 1 or 3.                                                    *)
C8_OddMiiOutBehavior ==
    \A run \in Runs : \A k \in 1 .. Len(rand_output[run].records) :
        LET level == rand_output[run].records[k]
        IN  level.level_type \in { 9, 10, 11 } => level.behavior \in { 1, 3 }

(* C10: within the generation of one level, a field that a rule has set to *)
(* an exact value is not left with a different value by any later rule.    *)
C10_NoSilentClobber ==
    [][ (rand_pc = "loop" /\ rule >= 1) =>
          \A run \in Runs : \A f \in fixed[run] :
              levels'[run][i + 1][f] = levels[run][i + 1][f] ]_vars

(* C13: every level randomize has written whose level_type is 17, 18 or   *)
(* 19 has behavior 0, on every map.                                        *)
C13_InsomniacBehavior ==
    \A run \in Runs : \A k \in 1 .. Len(rand_output[run].records) :
        LET level == rand_output[run].records[k]
        IN  level.level_type \in { 17, 18, 19 } => level.behavior = 0

\* a finished run has written a space-stage level of objective 17, whose
\* behavior the space-stage rule had redrawn
C13_Witness ==
    /\ rand_pc = "done"
    /\ \E run \in Runs : \E k \in 1 .. Len(rand_output[run].records) :
         /\ rand_output[run].records[k].level_type = 17
         /\ rand_output[run].records[k].map = 2
         /\ rand_output[run].records[k].behavior = 0

(* C14: every level randomize has written whose map is 1 has darkness      *)
(* exactly 0.                                                              *)
C14_OceanDarkness ==
    \A run \in Runs : \A k \in 1 .. Len(rand_output[run].records) :
        LET level == rand_output[run].records[k]
        IN  level.map = 1 => level.darkness = 0

\* a finished run has written an ocean level without darkness that still
\* carries the unk12 of a level drawn dark
C14_Witness ==
    /\ rand_pc = "done"
    /\ \E run \in Runs : \E k \in 1 .. Len(rand_output[run].records) :
         /\ rand_output[run].records[k].map = 1
         /\ rand_output[run].records[k].darkness = 0
         /\ rand_output[run].records[k].unk12 = Dec(3, 0)

====
